---------------------------- MODULE Spec2Model ----------------------------
(***************************************************************************)
(* The streaming chat sender of dalia: useChatSender (the controller:      *)
(* sendMessage, its read loop, flushBuffer and processEvent) together with *)
(* the hooks ChatPageContent passes to it.                                 *)
(*                                                                         *)
(* Text is a sequence of units.  "n" is a newline, "s" a space, "d" the    *)
(* five characters "data:", and every other unit is one piece of payload   *)
(* text.  The response body is a sequence of bytes: the ASCII units above  *)
(* stand for themselves, "L" and "T" are the lead and the trail byte of a  *)
(* two-byte UTF-8 character, which TextDecoder turns into the character    *)
(* "e2", or into "FFFD" when the sequence is malformed.                    *)
(***************************************************************************)
EXTENDS Integers, Sequences, FiniteSets, TLC

\* ------------------------------------------------------------------ bounds

\* sendMessage calls in one behaviour
MaxCalls == 2
\* records (blocks) in one response body of the session specification
MaxRecords == 2
\* bytes in one response body of the framing specification
MaxBytes == 4

CallIds == 1..MaxCalls

\* ----------------------------------------------------------------- strings

NoConv == "undefined"
NoError == "null"
NoField == "undefined"

StreamingFailed == "Streaming failed."
UnableToStart == "Unable to start streaming response."
DefaultStreamError == "Something went wrong while streaming your message."
DefaultSendError == "We couldn't send your message. Please try again."
NullTypeError == "Cannot read properties of null (reading 'type')"
NetworkError == "Failed to fetch"
ReadFailure == "network error"
PostFailure == "Request failed"

ConvIds == {"c0", "c1", "c2"}

\* -------------------------------------------------------------------- text

IsWs(u) == u \in {"s", "n"}

RECURSIVE trimStart(_)
trimStart(t) ==
  IF t = <<>> THEN <<>>
  ELSE IF IsWs(Head(t)) THEN trimStart(Tail(t)) ELSE t

RECURSIVE trimEnd(_)
trimEnd(t) ==
  IF t = <<>> THEN <<>>
  ELSE IF IsWs(t[Len(t)]) THEN trimEnd(SubSeq(t, 1, Len(t) - 1)) ELSE t

\* trim left out: the text as it is
trimNothing(t) == t

\* String.prototype.trim
trim(t) == trimEnd(trimStart(t))

\* buffer.indexOf("\n\n"), 0-based as in the source
indexOfSeparator(t) ==
  LET hits == {i \in 0..(Len(t) - 2) : t[i + 1] = "n" /\ t[i + 2] = "n"}
  IN IF hits = {} THEN -1 ELSE CHOOSE i \in hits : \A j \in hits : i <= j

\* buffer.slice(0, i) and buffer.slice(i), 0-based as in the source
sliceTo(t, i) == SubSeq(t, 1, i)
sliceFrom(t, i) == SubSeq(t, i + 1, Len(t))

\* The records of a body: one per separator, and the unterminated rest.
RECURSIVE RecordCount(_)
RecordCount(text) ==
  LET i == indexOfSeparator(text)
  IN IF i = -1 THEN (IF text = <<>> THEN 0 ELSE 1)
     ELSE 1 + RecordCount(sliceFrom(text, i + 2))

\* trimmedEvent.split("\n")
RECURSIVE splitLines(_)
splitLines(t) ==
  LET nl == {i \in 1..Len(t) : t[i] = "n"}
  IN IF nl = {} THEN <<t>>
     ELSE LET i == CHOOSE k \in nl : \A j \in nl : k <= j
          IN <<SubSeq(t, 1, i - 1)>> \o splitLines(SubSeq(t, i + 1, Len(t)))

\* line.startsWith("data:")
startsWithData(line) == line # <<>> /\ Head(line) = "d"

\* line.replace(/^data:\s*/, "")
stripData(line) == trimStart(Tail(line))

\* .filter(startsWith).map(replace)
RECURSIVE dataLinesOf(_)
dataLinesOf(lines) ==
  IF lines = <<>> THEN <<>>
  ELSE IF startsWithData(Head(lines))
       THEN <<stripData(Head(lines))>> \o dataLinesOf(Tail(lines))
       ELSE dataLinesOf(Tail(lines))

\* dataLines.join("\n")
RECURSIVE joinLines(_)
joinLines(lines) ==
  IF lines = <<>> THEN <<>>
  ELSE IF Len(lines) = 1 THEN Head(lines)
  ELSE Head(lines) \o <<"n">> \o joinLines(Tail(lines))

RECURSIVE dropWs(_)
dropWs(t) ==
  IF t = <<>> THEN <<>>
  ELSE IF IsWs(Head(t)) THEN dropWs(Tail(t)) ELSE <<Head(t)>> \o dropWs(Tail(t))

\* ------------------------------------------------------------------ events

Msg(role, content) == [role |-> role, content |-> content, pending |-> FALSE]

CompleteMessages == <<Msg("user", <<"h">>), Msg("assistant", <<"a", "b">>)>>

Value(kind, type, conv, chunk, messages, error) ==
  [kind |-> kind, type |-> type, conversation_id |-> conv, chunk |-> chunk,
   messages |-> messages, error |-> error, latest_message |-> <<>>]

NoEvent == Value("none", NoField, NoConv, NoField, <<>>, NoField)

\* The payload texts the model knows, and the values JSON.parse gives for them.
Atoms ==
  [START |-> Value("object", "start", "c1", NoField, <<>>, NoField),
   CONTa |-> Value("object", "content", NoConv, "a", <<>>, NoField),
   CONTb |-> Value("object", "content", NoConv, "b", <<>>, NoField),
   COMPL |-> Value("object", "complete", "c2", NoField, CompleteMessages, NoField),
   ERRm  |-> Value("object", "error", NoConv, NoField, <<>>, "boom"),
   ERR0  |-> Value("object", "error", NoConv, NoField, <<>>, NoField),
   PING  |-> Value("object", "ping", NoConv, NoField, <<>>, NoField),
   NULL  |-> Value("null", NoField, NoConv, NoField, <<>>, NoField),
   NUM   |-> Value("number", NoField, NoConv, NoField, <<>>, NoField)]

EmptyObject == Value("object", NoField, NoConv, NoField, <<>>, NoField)

\* JSON.parse: white space between tokens is skipped; a text that is not one
\* complete value is a SyntaxError.  "{" followed by "}" is the object {}.
JSONparse(text) ==
  LET toks == dropWs(text)
  IN IF Len(toks) = 1 /\ toks[1] \in DOMAIN Atoms
       THEN [ok |-> TRUE, value |-> Atoms[toks[1]]]
     ELSE IF toks = <<"{", "}">>
       THEN [ok |-> TRUE, value |-> EmptyObject]
     ELSE [ok |-> FALSE, value |-> NoEvent]


\* ------------------------------------------------------------------- state

VARIABLES
  conversationId,      \* useChatSender: useState(initialConversationId)
  isSending,           \* useChatSender: useState(false)
  error,               \* useChatSender: useState(null)
  optimisticMessages,  \* ChatPageContent: useState([])
  streamError,         \* ChatPageContent: useState(null)
  cache,               \* the query client's data, by conversation id
  calls,               \* the sendMessage calls: position and local variables
  log,                 \* history: the requests issued and the hooks invoked
  fragments,           \* history: the sizes of the fragments read so far
  page                 \* ChatPageContent: its props and hasAutoSentInitialMessage

vars == <<conversationId, isSending, error, optimisticMessages, streamError,
          cache, calls, log, fragments, page>>

\* A call that has not been made.
IdleCall ==
  [pc |-> "idle", trimmed |-> <<>>, useStreaming |-> TRUE, rest |-> <<>>,
   records |-> 0,
   received |-> <<>>, buffer |-> <<>>, held |-> FALSE,
   encounteredError |-> FALSE, reader |-> "none", emitted |-> <<>>,
   done |-> FALSE, thrown |-> NoError]

InFlight(c) == calls[c].pc \in {"awaitPost", "awaitFetch", "reading"}
Settled(c) == calls[c].pc \in {"resolved", "rejected"}

\* The state the synchronous code of one call reads and writes: the
\* controller's and the page's state, and the call's local variables.
Context(c) ==
  [conversationId |-> conversationId, error |-> error,
   optimisticMessages |-> optimisticMessages, streamError |-> streamError,
   cache |-> cache, log |-> log, call |-> c,
   buffer |-> calls[c].buffer, encounteredError |-> calls[c].encounteredError,
   emitted |-> calls[c].emitted, thrown |-> NoError]

Entry(ctx, hook, ev, str, text) ==
  [call |-> ctx.call, hook |-> hook, ev |-> ev, str |-> str, text |-> text,
   conv |-> ctx.conversationId, opt |-> ctx.optimisticMessages,
   cache |-> ctx.cache]

\* One line of history, written when the hook (or the request) has returned,
\* with the conversation id, the optimistic list and the cache as they are then.
Logged(ctx, hook, ev, str, text) ==
  [ctx EXCEPT !.log = Append(ctx.log, Entry(ctx, hook, ev, str, text))]

\* ------------------------------------------------- ChatPageContent's hooks

clearError(ctx) == [ctx EXCEPT !.error = NoError]

handleBeforeSend(ctx, content) ==
  [clearError(ctx) EXCEPT
     !.streamError = NoError,
     !.optimisticMessages =
        <<[role |-> "user", content |-> content, pending |-> FALSE],
          [role |-> "assistant", content |-> <<>>, pending |-> TRUE]>>]

\* handleSendError that leaves the optimistic list as it is
handleSendErrorKeepsList(ctx, message) ==
  [ctx EXCEPT
     !.streamError = IF message = NoField THEN DefaultSendError ELSE message]

handleSendError(ctx, message) ==
  [ctx EXCEPT
     !.optimisticMessages = <<>>,
     !.streamError = IF message = NoField THEN DefaultSendError ELSE message]

\* handleResponse that leaves the optimistic list as it is
handleResponseKeepsList(ctx, response) ==
  [ctx EXCEPT
     !.streamError = NoError,
     !.cache = [ctx.cache EXCEPT ![response.conversation_id] = <<response.messages>>]]

handleResponse(ctx, response) ==
  [ctx EXCEPT
     !.streamError = NoError,
     !.optimisticMessages = <<>>,
     !.cache = [ctx.cache EXCEPT ![response.conversation_id] = <<response.messages>>]]

\* next.findIndex((item) => item.role === "assistant"), 1-based; 0 stands for -1
assistantIndexOf(list) ==
  LET hits == {i \in 1..Len(list) : list[i].role = "assistant"}
  IN IF hits = {} THEN 0 ELSE CHOOSE i \in hits : \A j \in hits : i <= j

\* appendChunk with the chunk put in front of the content
appendChunkInFront(previous, chunk) ==
  LET fresh == [role |-> "assistant", content |-> <<chunk>>, pending |-> TRUE]
      hits == {i \in 1..Len(previous) : previous[i].role = "assistant"}
  IN IF Len(previous) = 0 THEN <<fresh>>
     ELSE IF hits = {} THEN Append(previous, fresh)
     ELSE LET i == CHOOSE k \in hits : \A j \in hits : k <= j
          IN [previous EXCEPT ![i] =
                [previous[i] EXCEPT !.content = <<chunk>> \o previous[i].content,
                                    !.pending = TRUE]]

\* appendChunk that pushes a new pending entry for every chunk
appendChunkAlwaysPushes(previous, chunk) ==
  Append(previous, [role |-> "assistant", content |-> <<chunk>>, pending |-> TRUE])

\* the functional update handleStreamEvent gives setOptimisticMessages
appendChunk(previous, chunk) ==
  LET fresh == [role |-> "assistant", content |-> <<chunk>>, pending |-> TRUE]
      i == assistantIndexOf(previous)
  IN IF Len(previous) = 0 THEN <<fresh>>
     ELSE IF i = 0 THEN Append(previous, fresh)
     ELSE [previous EXCEPT ![i] =
             [previous[i] EXCEPT !.content = previous[i].content \o <<chunk>>,
                                 !.pending = TRUE]]

\* handleStreamEvent that calls clearError for a content event as well
handleStreamEventClearsOnContent(ctx, event) ==
  IF event.type = "start" THEN [clearError(ctx) EXCEPT !.streamError = NoError]
  ELSE IF event.type = "content"
    THEN [clearError(ctx) EXCEPT
            !.optimisticMessages = appendChunk(ctx.optimisticMessages, event.chunk)]
  ELSE IF event.type = "error" THEN handleSendError(ctx, event.error)
  ELSE ctx

\* handleStreamEvent that empties the list for an event of another type
handleStreamEventResetsOnOther(ctx, event) ==
  IF event.type = "start" THEN [clearError(ctx) EXCEPT !.streamError = NoError]
  ELSE IF event.type = "content"
    THEN [ctx EXCEPT !.optimisticMessages = appendChunk(ctx.optimisticMessages, event.chunk)]
  ELSE IF event.type = "error" THEN handleSendError(ctx, event.error)
  ELSE IF event.type = "complete" THEN ctx
  ELSE [ctx EXCEPT !.optimisticMessages = <<>>]

handleStreamEvent(ctx, event) ==
  IF event.type = "start" THEN [clearError(ctx) EXCEPT !.streamError = NoError]
  ELSE IF event.type = "content"
    THEN [ctx EXCEPT !.optimisticMessages = appendChunk(ctx.optimisticMessages, event.chunk)]
  ELSE IF event.type = "error" THEN handleSendError(ctx, event.error)
  ELSE ctx

\* The options handleSendMessage passes to sendMessage.
onBeforeSend(ctx, trimmed) ==
  Logged(handleBeforeSend(ctx, trimmed), "onBeforeSend", NoEvent, "", trimmed)

onStreamEvent(ctx, event) ==
  Logged(handleStreamEvent(ctx, event), "onStreamEvent", event, "", <<>>)

onResponse(ctx, response) ==
  Logged(handleResponse(ctx, response), "onResponse", response, "", <<>>)

onError(ctx, message) ==
  Logged(handleSendError(ctx, message), "onError", NoEvent, message, <<>>)


\* ------------------------------------------------------------ processEvent

\* applyEvent that forgets the conversation id when an error event arrives
applyEventUnsetsOnError(ctx, payload) ==
  IF payload.type = "start"
    THEN [ctx EXCEPT !.conversationId = payload.conversation_id]
  ELSE IF payload.type = "error"
    THEN LET message == IF payload.error = NoField THEN DefaultStreamError
                        ELSE payload.error
         IN onError([ctx EXCEPT !.encounteredError = TRUE, !.error = message,
                                !.conversationId = NoConv],
                    message)
  ELSE IF payload.type = "complete"
    THEN onResponse(
           [ctx EXCEPT !.conversationId = payload.conversation_id],
           [Value("response", NoField, payload.conversation_id, NoField,
                  payload.messages, NoField)
              EXCEPT !.latest_message =
                IF Len(payload.messages) # 0
                  THEN <<payload.messages[Len(payload.messages)]>> ELSE <<>>])
  ELSE ctx

\* What processEvent does with a decoded payload before it forwards it.
applyEvent(ctx, payload) ==
  IF payload.type = "start"
    THEN [ctx EXCEPT !.conversationId = payload.conversation_id]
  ELSE IF payload.type = "error"
    THEN LET message == IF payload.error = NoField THEN DefaultStreamError
                        ELSE payload.error
         IN onError([ctx EXCEPT !.encounteredError = TRUE, !.error = message],
                    message)
  ELSE IF payload.type = "complete"
    THEN onResponse(
           [ctx EXCEPT !.conversationId = payload.conversation_id],
           [Value("response", NoField, payload.conversation_id, NoField,
                  payload.messages, NoField)
              EXCEPT !.latest_message =
                IF Len(payload.messages) # 0
                  THEN <<payload.messages[Len(payload.messages)]>> ELSE <<>>])
  ELSE ctx

\* processEvent that returns after a complete event without forwarding it
processEventReturnsOnComplete(ctx0, rawEvent) ==
  LET ctx == [ctx0 EXCEPT !.emitted = Append(@, rawEvent)]
      trimmedEvent == trim(rawEvent)
      dataLines == dataLinesOf(splitLines(trimmedEvent))
      parsed == JSONparse(joinLines(dataLines))
  IN IF trimmedEvent = <<>> THEN ctx
     ELSE IF Len(dataLines) = 0 THEN ctx
     ELSE IF ~parsed.ok THEN ctx
     ELSE IF parsed.value.kind = "null" THEN [ctx EXCEPT !.thrown = NullTypeError]
     ELSE IF parsed.value.type = "complete" THEN applyEvent(ctx, parsed.value)
     ELSE onStreamEvent(applyEvent(ctx, parsed.value), parsed.value)

\* processEvent(rawEvent).  Reading .type of null throws a TypeError, which
\* leaves processEvent and flushBuffer; every other value is forwarded.
processEvent(ctx0, rawEvent) ==
  LET ctx == [ctx0 EXCEPT !.emitted = Append(@, rawEvent)]
      trimmedEvent == trim(rawEvent)
      dataLines == dataLinesOf(splitLines(trimmedEvent))
      parsed == JSONparse(joinLines(dataLines))
  IN IF trimmedEvent = <<>> THEN ctx
     ELSE IF Len(dataLines) = 0 THEN ctx
     ELSE IF ~parsed.ok THEN ctx
     ELSE IF parsed.value.kind = "null" THEN [ctx EXCEPT !.thrown = NullTypeError]
     ELSE onStreamEvent(applyEvent(ctx, parsed.value), parsed.value)

\* The while loop of flushBuffer: one record per separator found.
RECURSIVE flushRecords(_)
flushRecords(ctx) ==
  LET separatorIndex == indexOfSeparator(ctx.buffer)
  IN IF ctx.thrown # NoError \/ separatorIndex = -1 THEN ctx
     ELSE flushRecords(
            processEvent(
              [ctx EXCEPT !.buffer = sliceFrom(ctx.buffer, separatorIndex + 2)],
              sliceTo(ctx.buffer, separatorIndex)))

\* flushBuffer whose every call is a final one
flushBufferAlwaysFinal(ctx, isFinal) ==
  LET after == flushRecords(ctx)
  IN IF after.thrown # NoError THEN after
     ELSE IF Len(trim(after.buffer)) > 0
       THEN LET last == processEvent(after, after.buffer)
            IN IF last.thrown # NoError THEN last
               ELSE [last EXCEPT !.buffer = <<>>]
     ELSE after

\* flushBuffer whose final flush does not trim the remainder before testing it
flushBufferFinalUntrimmed(ctx, isFinal) ==
  LET after == flushRecords(ctx)
  IN IF after.thrown # NoError THEN after
     ELSE IF isFinal /\ Len(after.buffer) > 0
       THEN LET last == processEvent(after, after.buffer)
            IN IF last.thrown # NoError THEN last
               ELSE [last EXCEPT !.buffer = <<>>]
     ELSE after

flushBuffer(ctx, isFinal) ==
  LET after == flushRecords(ctx)
  IN IF after.thrown # NoError THEN after
     ELSE IF isFinal /\ Len(trim(after.buffer)) > 0
       THEN LET last == processEvent(after, after.buffer)
            IN IF last.thrown # NoError THEN last
               ELSE [last EXCEPT !.buffer = <<>>]
     ELSE after

\* ------------------------------------------------------------- TextDecoder

\* The UTF-8 decoder over the bytes of one chunk; held: a lead byte is waiting
\* for its trail byte.
RECURSIVE decodeBytes(_, _)
decodeBytes(held, bytes) ==
  IF bytes = <<>> THEN [text |-> <<>>, held |-> held]
  ELSE LET b == Head(bytes)
           emit(ch, more) == [text |-> <<ch>> \o more.text, held |-> more.held]
       IN IF held
            THEN IF b = "T" THEN emit("e2", decodeBytes(FALSE, Tail(bytes)))
                 ELSE emit("FFFD", decodeBytes(FALSE, bytes))
          ELSE IF b = "L" THEN decodeBytes(TRUE, Tail(bytes))
          ELSE IF b = "T" THEN emit("FFFD", decodeBytes(FALSE, Tail(bytes)))
          ELSE emit(b, decodeBytes(FALSE, Tail(bytes)))

\* decoder.decode(value, { stream: true }) and, with stream FALSE, decoder.decode()
decode(held, value, stream) ==
  LET d == decodeBytes(held, value)
  IN IF stream THEN d
     ELSE [text |-> d.text \o (IF d.held THEN <<"FFFD">> ELSE <<>>), held |-> FALSE]


\* ------------------------------------------------------------- sendMessage

\* The catch block of sendMessage: err.message goes to setError and onError.
catchBlock(ctx, message) == onError([ctx EXCEPT !.error = message], message)

\* The state a step of call c leaves: the context written back, the call's
\* record, and isSending.
Commit(ctx, c, call, sending) ==
  /\ conversationId' = ctx.conversationId
  /\ error' = ctx.error
  /\ optimisticMessages' = ctx.optimisticMessages
  /\ streamError' = ctx.streamError
  /\ cache' = ctx.cache
  /\ log' = ctx.log
  /\ isSending' = sending
  /\ calls' = [calls EXCEPT ![c] =
       IF call.pc \in {"resolved", "rejected"}
         THEN \* the call has returned: its buffer, decoder and body are gone
              [call EXCEPT !.buffer = <<>>, !.held = FALSE, !.rest = <<>>,
                           !.received = IF call.done THEN call.received ELSE <<>>,
                           !.encounteredError = ctx.encounteredError,
                           !.emitted = ctx.emitted]
         ELSE [call EXCEPT !.buffer = ctx.buffer,
                           !.encounteredError = ctx.encounteredError,
                           !.emitted = ctx.emitted]]

\* the catch block without the finally block after it
RejectWithoutFinally(ctx, c, call, message) ==
  Commit(catchBlock(ctx, message), c,
         [call EXCEPT !.pc = "rejected", !.thrown = message], isSending)

\* err thrown inside the outer try: catch (setError, onError, rethrow), then
\* finally (setIsSending(false)); the call is rejected with err.
Reject(ctx, c, call, message) ==
  Commit(catchBlock(ctx, message), c,
         [call EXCEPT !.pc = "rejected", !.thrown = message], FALSE)

\* sendMessage that issues its request before the before-send hook is invoked
SubmitRequestFirst(c, message, useStreaming) ==
  LET trimmed == trim(message)
      call == [calls[c] EXCEPT !.trimmed = trimmed]
      ctx == Logged([Context(c) EXCEPT !.error = NoError],
                    IF useStreaming THEN "fetch" ELSE "post", NoEvent,
                    conversationId, trimmed)
  IN /\ calls[c].pc = "idle"
     /\ \A b \in CallIds : b < c => calls[b].pc # "idle"
     /\ IF Len(trimmed) = 0
          THEN /\ calls' = [calls EXCEPT ![c] = [call EXCEPT !.pc = "resolved"]]
               /\ UNCHANGED <<conversationId, isSending, error, optimisticMessages,
                              streamError, cache, log>>
          ELSE Commit(
                 onBeforeSend(ctx, trimmed),
                 c,
                 [call EXCEPT !.pc = IF useStreaming THEN "awaitFetch" ELSE "awaitPost",
                              !.useStreaming = useStreaming],
                 TRUE)

\* sendMessage(message, options) up to its first await.
Submit(c, message, useStreaming) ==
  LET trimmed == trim(message)
      call == [calls[c] EXCEPT !.trimmed = trimmed]
      ctx == onBeforeSend([Context(c) EXCEPT !.error = NoError], trimmed)
  IN /\ calls[c].pc = "idle"
     /\ \A b \in CallIds : b < c => calls[b].pc # "idle"
     /\ IF Len(trimmed) = 0
          THEN /\ calls' = [calls EXCEPT ![c] = [call EXCEPT !.pc = "resolved"]]
               /\ UNCHANGED <<conversationId, isSending, error, optimisticMessages,
                              streamError, cache, log>>
          ELSE Commit(
                 Logged(ctx, IF useStreaming THEN "fetch" ELSE "post", NoEvent,
                        conversationId, trimmed),
                 c,
                 [call EXCEPT !.pc = IF useStreaming THEN "awaitFetch" ELSE "awaitPost",
                              !.useStreaming = useStreaming],
                 TRUE)

\* the fallback path without its setConversationId
PostResolveKeepsConversationId(c, payload) ==
  /\ calls[c].pc = "awaitPost"
  /\ Commit(onResponse(Context(c), payload),
            c, [calls[c] EXCEPT !.pc = "resolved"], FALSE)

\* await postChatChatPost(...) resolves with response.data = payload.
PostResolve(c, payload) ==
  /\ calls[c].pc = "awaitPost"
  /\ Commit(onResponse([Context(c) EXCEPT !.conversationId = payload.conversation_id],
                       payload),
            c, [calls[c] EXCEPT !.pc = "resolved"], FALSE)

\* await postChatChatPost(...) rejects.
PostReject(c) ==
  /\ calls[c].pc = "awaitPost"
  /\ Reject(Context(c), c, calls[c], PostFailure)

\* await fetch(...) rejects: the request could not be issued.
FetchReject(c) ==
  /\ calls[c].pc = "awaitFetch"
  /\ Reject(Context(c), c, calls[c], NetworkError)

\* await fetch(...) resolves; the response is checked and its reader taken.
FetchResolve(c, ok, hasBody, body) ==
  /\ calls[c].pc = "awaitFetch"
  /\ IF ~ok \/ ~hasBody
       THEN Reject(Context(c), c, calls[c], UnableToStart)
       ELSE Commit(Context(c), c,
                   [calls[c] EXCEPT !.pc = "reading", !.reader = "locked",
                                    !.rest = body,
                                    !.records = RecordCount(body)],
                   isSending)

\* leaving the read loop normally without the finally that resets isSending
LeaveLoopKeepsSending(ctx, c, call) ==
  LET released == [call EXCEPT !.reader = "released"]
  IN IF ctx.thrown # NoError THEN Reject(ctx, c, released, ctx.thrown)
     ELSE IF ctx.encounteredError THEN Reject(ctx, c, released, StreamingFailed)
     ELSE Commit(ctx, c, [released EXCEPT !.pc = "resolved"], isSending)

\* The end of the read loop: finally releaseLock, then the throw of
\* "Streaming failed." or of the error that left the loop, or the return.
LeaveLoop(ctx, c, call) ==
  LET released == [call EXCEPT !.reader = "released"]
  IN IF ctx.thrown # NoError THEN Reject(ctx, c, released, ctx.thrown)
     ELSE IF ctx.encounteredError THEN Reject(ctx, c, released, StreamingFailed)
     ELSE Commit(ctx, c, [released EXCEPT !.pc = "resolved"], FALSE)

\* await reader.read() resolves with the next size bytes of the body.
ReadChunk(c, size) ==
  LET value == SubSeq(calls[c].rest, 1, size)
      d == decode(calls[c].held, value, TRUE)
      call == [calls[c] EXCEPT !.rest = SubSeq(calls[c].rest, size + 1, Len(calls[c].rest)),
                               !.received = calls[c].received \o value,
                               !.held = d.held]
      ctx == flushBuffer([Context(c) EXCEPT !.buffer = calls[c].buffer \o d.text], FALSE)
  IN /\ calls[c].pc = "reading"
     /\ size \in 1..Len(calls[c].rest)
     /\ IF ctx.thrown # NoError \/ ctx.encounteredError
          THEN LeaveLoop(ctx, c, call)
          ELSE Commit(ctx, c, call, isSending)

\* await reader.read() resolves with done: the body has been read to its end.
ReadDone(c) ==
  LET d == decode(calls[c].held, <<>>, FALSE)
      call == [calls[c] EXCEPT !.held = d.held, !.received = calls[c].received]
      ctx == flushBuffer([Context(c) EXCEPT !.buffer = calls[c].buffer \o d.text], TRUE)
  IN /\ calls[c].pc = "reading"
     /\ calls[c].rest = <<>>
     /\ LeaveLoop(ctx, c, [call EXCEPT !.done = TRUE])

\* reader.read() rejecting without the finally that releases the reader
ReadErrorKeepsLock(c) ==
  /\ calls[c].pc = "reading"
  /\ Reject(Context(c), c, calls[c], ReadFailure)

\* await reader.read() rejects: the transport failed while the body was read.
ReadError(c) ==
  /\ calls[c].pc = "reading"
  /\ Reject(Context(c), c, [calls[c] EXCEPT !.reader = "released"], ReadFailure)

\* clearError(), as the hook's caller may call it at any time.
ClearError ==
  /\ error # NoError
  /\ error' = NoError
  /\ UNCHANGED <<conversationId, isSending, optimisticMessages, streamError,
                 cache, calls, log>>


\* ------------------------------------------------------------------ inputs

\* What the user types: nothing, white space only, and a padded message.
Messages == {<<>>, <<"s", "n">>, <<"s", "h", "s", "i", "n">>}

\* The message the framing specification sends.
Hello == <<"h">>

\* One record of the stream as section 6 of the spec writes it.
Record(atom) == <<"d", "s", atom, "n", "n">>

\* The records of well-formed events.
EventRecords ==
  {Record(a) : a \in {"START", "CONTa", "CONTb", "COMPL", "ERRm", "ERR0", "PING"}}

\* Records whose payload is no event (null, a number, text that is no JSON, no
\* data line at all), the object {} written on two data lines, and two events
\* to follow them.
OddRecords ==
  {Record(a) : a \in {"NULL", "NUM", "CONTa", "ERR0"}}
    \cup {<<"d", "x", "n", "n">>,
          <<"d", "{", "n", "d", "s", "}", "n", "n">>,
          <<"x", "n", "n">>}

RECURSIVE BodiesOf(_, _)
BodiesOf(records, n) ==
  IF n = 0 THEN {<<>>}
  ELSE {r \o b : r \in records, b \in BodiesOf(records, n - 1)}

\* The bodies of at most n records; the last one may lack its separator.
Bodies(records, n) ==
  LET whole == UNION {BodiesOf(records, k) : k \in 0..n}
  IN whole \cup {SubSeq(b, 1, Len(b) - 2) : b \in whole \ {<<>>}}

RECURSIVE Sum(_, _)
Sum(f, S) ==
  IF S = {} THEN 0
  ELSE LET x == CHOOSE y \in S : TRUE IN f[x] + Sum(f, S \ {x})

\* The records the behaviour may still deliver: MaxRecords less those of the
\* bodies already handed out.
RecordsLeft == MaxRecords - Sum([c \in CallIds |-> calls[c].records], CallIds)

Bytes == {"n", "s", "x", "L", "T"}

RECURSIVE ByteStrings(_)
ByteStrings(n) ==
  IF n = 0 THEN {<<>>}
  ELSE LET shorter == ByteStrings(n - 1)
       IN shorter \cup {Append(b, x) : b \in shorter, x \in Bytes}

SessionBodies == [k \in 0..MaxRecords |-> Bodies(EventRecords, k)]

OddBodies == [k \in 0..MaxRecords |-> Bodies(OddRecords, k)]

FramingBodies == ByteStrings(MaxBytes)

PostResponses ==
  {Value("response", NoField, "c2", NoField, CompleteMessages, NoField)}

\* ----------------------------------------------------------- specification

Start(initialConversationId) ==
  /\ conversationId = initialConversationId
  /\ isSending = FALSE
  /\ error = NoError
  /\ optimisticMessages = <<>>
  /\ streamError = NoError
  /\ cache = [id \in ConvIds |-> <<>>]
  /\ calls = [c \in CallIds |-> IdleCall]
  /\ log = <<>>
  /\ fragments = <<>>
  /\ page = [initialConversationId |-> initialConversationId,
             initialMessage |-> <<>>,
             hasAutoSentInitialMessage |-> FALSE]

Init == \E initialConversationId \in {NoConv, "c0"} : Start(initialConversationId)

\* The longest body of the session specifications, hence the largest fragment.
MaxFragment == 8 * MaxRecords

\* The controller and the page under it; the server sends well-formed events.
Next ==
  \/ \E c \in CallIds, m \in Messages, u \in BOOLEAN :
       Submit(c, m, u) /\ UNCHANGED <<fragments, page>>
  \/ \E c \in CallIds, p \in PostResponses :
       PostResolve(c, p) /\ UNCHANGED <<fragments, page>>
  \/ \E c \in CallIds : PostReject(c) /\ UNCHANGED <<fragments, page>>
  \/ \E c \in CallIds : FetchReject(c) /\ UNCHANGED <<fragments, page>>
  \/ \E c \in CallIds, ok \in BOOLEAN, hasBody \in BOOLEAN :
       /\ calls[c].pc = "awaitFetch"
       /\ \E body \in SessionBodies[RecordsLeft] : FetchResolve(c, ok, hasBody, body)
       /\ UNCHANGED <<fragments, page>>
  \/ \E c \in CallIds, size \in 1..MaxFragment :
       ReadChunk(c, size) /\ UNCHANGED <<fragments, page>>
  \/ \E c \in CallIds : ReadDone(c) /\ UNCHANGED <<fragments, page>>
  \/ \E c \in CallIds : ReadError(c) /\ UNCHANGED <<fragments, page>>
  \/ ClearError /\ UNCHANGED <<fragments, page>>

Spec == Init /\ [][Next]_vars

\* The same when the server sends records that carry no event.
NextOdd ==
  \/ \E c \in CallIds, m \in Messages, u \in BOOLEAN :
       Submit(c, m, u) /\ UNCHANGED <<fragments, page>>
  \/ \E c \in CallIds, p \in PostResponses :
       PostResolve(c, p) /\ UNCHANGED <<fragments, page>>
  \/ \E c \in CallIds : PostReject(c) /\ UNCHANGED <<fragments, page>>
  \/ \E c \in CallIds : FetchReject(c) /\ UNCHANGED <<fragments, page>>
  \/ \E c \in CallIds, ok \in BOOLEAN, hasBody \in BOOLEAN :
       /\ calls[c].pc = "awaitFetch"
       /\ \E body \in OddBodies[RecordsLeft] : FetchResolve(c, ok, hasBody, body)
       /\ UNCHANGED <<fragments, page>>
  \/ \E c \in CallIds, size \in 1..MaxFragment :
       ReadChunk(c, size) /\ UNCHANGED <<fragments, page>>
  \/ \E c \in CallIds : ReadDone(c) /\ UNCHANGED <<fragments, page>>
  \/ \E c \in CallIds : ReadError(c) /\ UNCHANGED <<fragments, page>>
  \/ ClearError /\ UNCHANGED <<fragments, page>>

SpecOdd == Init /\ [][NextOdd]_vars

\* The frame decoder alone: one streaming call whose body is any byte string,
\* with the sizes of the fragments it was read in kept as history.
NextFraming ==
  \/ Submit(1, Hello, TRUE) /\ UNCHANGED <<fragments, page>>
  \/ \E body \in FramingBodies : FetchResolve(1, TRUE, TRUE, body) /\ UNCHANGED <<fragments, page>>
  \/ \E size \in 1..MaxBytes : ReadChunk(1, size) /\ fragments' = Append(fragments, size) /\ UNCHANGED page
  \/ ReadDone(1) /\ UNCHANGED <<fragments, page>>

InitFraming == Start(NoConv)

SpecFraming == InitFraming /\ [][NextFraming]_vars

\* ------------------------------------------------------------ the chat page

\* The initial message the page may be given: none, white space, a message.
InitialMessages == {<<>>, <<"s", "n">>, <<"s", "h", "s", "i", "n">>}

\* The effect that sends the initial message has its condition true.
AutoSendPending ==
  /\ page.initialMessage # <<>>
  /\ page.initialConversationId = NoConv
  /\ ~page.hasAutoSentInitialMessage

\* The effect of ChatPageContent that sends the initial message, once.
AutoSend(c) ==
  /\ AutoSendPending
  /\ page' = [page EXCEPT !.hasAutoSentInitialMessage = TRUE]
  /\ Submit(c, page.initialMessage, TRUE)

\* submitMessage that does not look at isSubmitting
submitMessageWithoutGuard(c, message) ==
  LET trimmed == trim(message)
  IN /\ ~AutoSendPending
     /\ Len(trimmed) # 0
     /\ Submit(c, trimmed, TRUE)
     /\ UNCHANGED page

\* submitMessage of MessageComposer, with isSubmitting the page's isSending:
\* a submit that is empty or made while isSubmitting is ignored; the others
\* go to handleSendMessage, which streams.  The effects of the first render
\* have run before an input event is handled.
submitMessage(c, message) ==
  LET trimmed == trim(message)
  IN /\ ~AutoSendPending
     /\ ~(Len(trimmed) = 0 \/ isSending)
     /\ Submit(c, trimmed, TRUE)
     /\ UNCHANGED page

StartPage(initialConversationId, initialMessage) ==
  /\ conversationId = initialConversationId
  /\ isSending = FALSE
  /\ error = NoError
  /\ optimisticMessages = <<>>
  /\ streamError = NoError
  /\ cache = [id \in ConvIds |-> <<>>]
  /\ calls = [c \in CallIds |-> IdleCall]
  /\ log = <<>>
  /\ fragments = <<>>
  /\ page = [initialConversationId |-> initialConversationId,
             initialMessage |-> initialMessage,
             hasAutoSentInitialMessage |-> FALSE]

InitPage ==
  \E initialConversationId \in {NoConv, "c0"}, initialMessage \in InitialMessages :
    StartPage(initialConversationId, initialMessage)

\* The controller when every submit comes from the page.
NextPage ==
  \/ \E c \in CallIds : AutoSend(c) /\ UNCHANGED fragments
  \/ \E c \in CallIds, m \in Messages : submitMessage(c, m) /\ UNCHANGED fragments
  \/ \E c \in CallIds : FetchReject(c) /\ UNCHANGED <<fragments, page>>
  \/ \E c \in CallIds, ok \in BOOLEAN, hasBody \in BOOLEAN :
       /\ calls[c].pc = "awaitFetch"
       /\ \E body \in SessionBodies[RecordsLeft] : FetchResolve(c, ok, hasBody, body)
       /\ UNCHANGED <<fragments, page>>
  \/ \E c \in CallIds, size \in 1..MaxFragment :
       ReadChunk(c, size) /\ UNCHANGED <<fragments, page>>
  \/ \E c \in CallIds : ReadDone(c) /\ UNCHANGED <<fragments, page>>
  \/ \E c \in CallIds : ReadError(c) /\ UNCHANGED <<fragments, page>>

SpecPage == InitPage /\ [][NextPage]_vars


\* ------------------------------------------------------------------ claims

\* The page shows streamError || senderError.
displayedError == IF streamError # NoError THEN streamError ELSE error

\* What a body gives when it arrives as one fragment followed by end-of-input.
OneShot(c, bytes) ==
  LET fresh == [Context(c) EXCEPT !.buffer = <<>>, !.emitted = <<>>,
                                  !.encounteredError = FALSE]
      first == decode(FALSE, bytes, TRUE)
      one == flushBuffer([fresh EXCEPT !.buffer = first.text], FALSE)
      last == decode(first.held, <<>>, FALSE)
      all == flushBuffer([one EXCEPT !.buffer = one.buffer \o last.text], TRUE)
  IN all.emitted

\* C1: when every fragment of a body and then end-of-input have been fed to
\* the frame decoder, the records it has emitted are those the body gives when
\* it arrives as one fragment, in the same order.
FramingInvariance ==
  \A c \in CallIds :
    calls[c].done => calls[c].emitted = OneShot(c, calls[c].received)

\* A body whose separator was cut in two by the fragment boundary.
FramingInvarianceWitness ==
  /\ calls[1].done
  /\ calls[1].received = <<"x", "n", "n", "x">>
  /\ fragments = <<2, 2>>
  /\ calls[1].emitted = << <<"x">>, <<"x">> >>

\* C2: once an Error event has been processed in a call, no later event of
\* that call reaches a hook.
ErrorShortCircuit ==
  \A i \in DOMAIN log : \A j \in DOMAIN log :
    (/\ i < j
     /\ log[i].call = log[j].call
     /\ log[i].hook = "onStreamEvent"
     /\ log[i].ev.type = "error")
      => log[j].hook \notin {"onStreamEvent", "onResponse"}

\* C3: at most one call is in flight, and isSending is true exactly while one is.
SingleFlight ==
  /\ Cardinality({c \in CallIds : InFlight(c)}) <= 1
  /\ isSending <=> (\E c \in CallIds : InFlight(c))

\* The messages that are empty once trimmed.
BlankMessages == {<<>>, <<"s", "n">>}

\* C4: a submit whose message is empty or white space only issues no request,
\* invokes no hook, changes nothing of the session, and resolves.
EmptySubmitIsNoOp ==
  [][\A c \in CallIds : \A m \in BlankMessages : \A u \in BOOLEAN :
       Submit(c, m, u) =>
         /\ UNCHANGED <<conversationId, isSending, error, optimisticMessages,
                        streamError, cache, log>>
         /\ calls'[c].pc = "resolved"
         /\ calls'[c].thrown = NoError]_vars

\* A blank submit made while an earlier call is in flight and an error is set.
EmptySubmitWitness ==
  /\ calls[1].pc = "rejected"
  /\ calls[2].pc = "resolved"
  /\ calls[2].trimmed = <<>>
  /\ error # NoError
  /\ \A i \in DOMAIN log : log[i].call = 1


IsStreamEvent(e, type) == e.hook = "onStreamEvent" /\ e.ev.type = type

\* C5 as claimed: once a Complete event has been applied, optimisticMessages
\* is the event's message list.
TerminalReplacementClaimed ==
  \A i \in DOMAIN log :
    IsStreamEvent(log[i], "complete") => log[i].opt = log[i].ev.messages

\* C5 as amended: once a Complete event has been applied, optimisticMessages
\* is empty, so no pending entry is left, and the event's message list has
\* gone, in order, to the response hook, which has made it the cached
\* conversation of the event's conversation id.
TerminalReplacement ==
  \A i \in DOMAIN log :
    IsStreamEvent(log[i], "complete") =>
      /\ log[i].opt = <<>>
      /\ i > 1
      /\ log[i - 1].hook = "onResponse"
      /\ log[i - 1].call = log[i].call
      /\ log[i - 1].ev.messages = log[i].ev.messages
      /\ log[i - 1].ev.conversation_id = log[i].ev.conversation_id
      /\ log[i].cache[log[i].ev.conversation_id] = <<log[i].ev.messages>>

\* A Complete event applied to a list that held a chunk already.
TerminalReplacementWitness ==
  \E i \in DOMAIN log :
    /\ IsStreamEvent(log[i], "complete")
    /\ i > 2
    /\ IsStreamEvent(log[i - 2], "content")
    /\ log[i - 2].opt # <<>>
    /\ log[i].ev.messages # <<>>

\* The chunks of the Content events among log[from..to], in order.
RECURSIVE ChunksIn(_, _)
ChunksIn(from, to) ==
  IF from > to THEN <<>>
  ELSE (IF IsStreamEvent(log[from], "content") THEN <<log[from].ev.chunk>> ELSE <<>>)
         \o ChunksIn(from + 1, to)

\* log[k] is a request or an event that is neither Complete nor Error.
Quiet(k) ==
  \/ log[k].hook \in {"fetch", "post"}
  \/ log[k].hook = "onStreamEvent" /\ log[k].ev.type \notin {"complete", "error"}

\* C6: after the before-send step, while nothing but Content (and Start)
\* events are applied, the pending assistant entry holds the chunks in arrival
\* order, stays pending, and the user entry before it is as it was recorded.
AppendSemantics ==
  \A j \in DOMAIN log :
    IsStreamEvent(log[j], "content") =>
      LET befores == {i \in 1..j : log[i].hook = "onBeforeSend"}
          i == CHOOSE k \in befores : \A m \in befores : m <= k
      IN (befores # {} /\ \A k \in (i + 1)..j : Quiet(k)) =>
           log[j].opt =
             <<[role |-> "user", content |-> log[i].text, pending |-> FALSE],
               [role |-> "assistant", content |-> ChunksIn(i + 1, j),
                pending |-> TRUE]>>

\* Two chunks, "a" and then "b", applied after the before-send step.
AppendSemanticsWitness ==
  \E j \in DOMAIN log :
    /\ IsStreamEvent(log[j], "content")
    /\ Len(log[j].opt) = 2
    /\ log[j].opt[2].content = <<"a", "b">>
    /\ log[j].opt[2].pending
    /\ log[j].opt[1].content = <<"h", "s", "i">>

\* The event a record carries, if it carries one.
EventOf(rawEvent) ==
  LET dataLines == dataLinesOf(splitLines(trim(rawEvent)))
      parsed == JSONparse(joinLines(dataLines))
  IN IF Len(dataLines) = 0 \/ ~parsed.ok \/ parsed.value.kind = "null" THEN <<>>
     ELSE <<parsed.value>>

RECURSIVE EventsOf(_)
EventsOf(records) ==
  IF records = <<>> THEN <<>> ELSE EventOf(Head(records)) \o EventsOf(Tail(records))

\* The events call c has forwarded to the stream-event hook, in order.
RECURSIVE Forwarded(_, _)
Forwarded(c, entries) ==
  IF entries = <<>> THEN <<>>
  ELSE (IF Head(entries).call = c /\ Head(entries).hook = "onStreamEvent"
          THEN <<Head(entries).ev>> ELSE <<>>) \o Forwarded(c, Tail(entries))

\* The effect of the event is there when the hook returns.
Applied(e) ==
  /\ e.ev.type \in {"start", "complete"} => e.conv = e.ev.conversation_id
  /\ e.ev.type = "content" =>
       \E k \in DOMAIN e.opt :
         /\ e.opt[k].role = "assistant"
         /\ e.opt[k].content # <<>>
         /\ e.opt[k].content[Len(e.opt[k].content)] = e.ev.chunk
  /\ e.ev.type \in {"complete", "error"} => e.opt = <<>>

\* C7: the stream-event hook is invoked once per event, whatever its type, in
\* the order the decoder emitted the records, each with its effect applied.
OrderPreservation ==
  /\ \A c \in CallIds : Forwarded(c, log) = EventsOf(calls[c].emitted)
  /\ \A i \in DOMAIN log : log[i].hook = "onStreamEvent" => Applied(log[i])

\* A Content and then a Complete event, both forwarded by a call that resolved.
OrderPreservationWitness ==
  \E c \in CallIds :
    /\ calls[c].pc = "resolved"
    /\ Len(calls[c].emitted) = 2
    /\ Len(Forwarded(c, log)) = 2
    /\ Forwarded(c, log)[1].type = "content"
    /\ Forwarded(c, log)[2].type = "complete"

\* C8: a record whose payload is no event (text that is no JSON, null, a
\* number) reaches no hook and does not make the call reject.
BadRecordRecovery ==
  /\ \A i \in DOMAIN log : log[i].hook = "onStreamEvent" => log[i].ev.kind = "object"
  /\ \A c \in CallIds : calls[c].thrown # NullTypeError

\* Call c is rejected in this step.
Rejects(c) == calls[c].pc # "rejected" /\ calls'[c].pc = "rejected"

\* C9: a call that fails ends with the error state set to the message, the
\* error hook invoked with it, the reader released if it was taken, and the
\* call rejected with isSending false; and a call that has seen an Error
\* event is a call that fails.
FailureHandling ==
  /\ [][\A c \in CallIds :
          Rejects(c) =>
            /\ calls'[c].thrown # NoError
            /\ error' = calls'[c].thrown
            /\ log' # <<>>
            /\ log'[Len(log')].hook = "onError"
            /\ log'[Len(log')].call = c
            /\ log'[Len(log')].str = calls'[c].thrown
            /\ calls[c].reader = "locked" => calls'[c].reader = "released"
            /\ calls'[c].reader # "locked"
            /\ isSending' = FALSE]_vars
  /\ [](\A c \in CallIds :
          /\ calls[c].encounteredError => calls[c].pc = "rejected"
          /\ calls[c].pc \in {"resolved", "rejected"} => calls[c].reader # "locked")

\* A call rejected because of an Error event, its reader released.
FailureHandlingWitness ==
  \E c \in CallIds :
    /\ calls[c].pc = "rejected"
    /\ calls[c].encounteredError
    /\ calls[c].thrown = StreamingFailed
    /\ calls[c].reader = "released"
    /\ error = StreamingFailed
    /\ ~isSending

\* The message an Error event carries, or the default text.
MessageOf(event) == IF event.error = NoField THEN DefaultStreamError ELSE event.error

\* C10: when a call that received an Error event settles, the error state, the
\* displayed error and every message the error hook was given for the call are
\* the event's text, or the default text when the event has no error field.
StreamErrorSurfaced ==
  [][\A c \in CallIds :
       (Rejects(c) /\ calls'[c].encounteredError) =>
         LET texts == {MessageOf(log'[i].ev) :
                         i \in {k \in DOMAIN log' :
                                  log'[k].call = c /\ IsStreamEvent(log'[k], "error")}}
         IN /\ error' \in texts
            /\ displayedError' \in texts
            /\ \A i \in DOMAIN log' :
                 (log'[i].call = c /\ log'[i].hook = "onError") =>
                   log'[i].str \in texts]_vars


\* The lines this step adds to the history.
Added == SubSeq(log', Len(log) + 1, Len(log'))

\* The error state is cleared in this step.
ErrorCleared == error # NoError /\ error' = NoError

\* C11 as claimed: an error that is set stays set until clearError is called
\* or a call reaches a successful terminal event; no other step clears it.
ErrorRetentionClaimed ==
  [][ErrorCleared =>
       \/ UNCHANGED <<calls, log>>
       \/ \E k \in DOMAIN Added : Added[k].hook = "onResponse"]_vars

\* C11 as amended: an error that is set stays set until clearError is called,
\* a submit with a non-empty message begins, or a Start event reaches the
\* page; an empty submit, a Content event, a Complete event and a fallback
\* response on their own do not clear it.
ErrorRetention ==
  [][ErrorCleared =>
       \/ UNCHANGED <<calls, log>>
       \/ \E k \in DOMAIN Added :
            \/ Added[k].hook = "onBeforeSend"
            \/ IsStreamEvent(Added[k], "start")]_vars

\* The error of a rejected call still set after a Complete event of the other
\* call was applied and that call resolved.
ErrorRetentionWitness ==
  /\ error # NoError
  /\ calls[1].pc = "rejected"
  /\ calls[2].pc = "resolved"
  /\ log # <<>>
  /\ log[Len(log)].call = 2
  /\ IsStreamEvent(log[Len(log)], "complete")
  /\ \E i \in DOMAIN log : log[i].call = 1 /\ log[i].hook = "onError"

\* C12: conversationId is the event's conversation_id whenever a Start event,
\* a Complete event or a fallback response has been processed, and once it is
\* set no step (an empty submit, a failed call, an Error event) unsets it.
ConversationIdKept ==
  /\ [](\A i \in DOMAIN log :
          (\/ IsStreamEvent(log[i], "start")
           \/ IsStreamEvent(log[i], "complete")
           \/ log[i].hook = "onResponse") =>
            /\ log[i].ev.conversation_id # NoConv
            /\ log[i].conv = log[i].ev.conversation_id)
  /\ [][conversationId # NoConv => conversationId' # NoConv]_vars

\* A controller that started without a conversation id holds the id of a
\* Start event after the call that received it failed on an Error event.
ConversationIdKeptWitness ==
  \E c \in CallIds :
    /\ calls[c].pc = "rejected"
    /\ calls[c].encounteredError
    /\ conversationId = "c1"
    /\ \E i \in DOMAIN log : log[i].hook = "fetch" /\ log[i].str = NoConv
    /\ \E i \in DOMAIN log : log[i].call = c /\ IsStreamEvent(log[i], "start")

\* The lines of the history that call c wrote through the given hooks.
EntriesOf(c, hooks) == {i \in DOMAIN log : log[i].call = c /\ log[i].hook \in hooks}

Last(S) == CHOOSE i \in S : \A j \in S : j <= i

Hooks == {"onBeforeSend", "onStreamEvent", "onResponse", "onError"}

\* What call c has left behind: the reply its response hook was given, and
\* the state when its last hook returned.
Outcome(c) ==
  LET response == log[Last(EntriesOf(c, {"onResponse"}))]
      final == log[Last(EntriesOf(c, Hooks))]
  IN [conversationId |-> final.conv,
      optimisticMessages |-> final.opt,
      conversation_id |-> response.ev.conversation_id,
      messages |-> response.ev.messages,
      cached |-> final.cache[response.ev.conversation_id],
      responses |-> Cardinality(EntriesOf(c, {"onResponse"})),
      errors |-> Cardinality(EntriesOf(c, {"onError"}))]

\* Call c was a fallback submit that has resolved.
FallbackDone(c) ==
  calls[c].pc = "resolved" /\ calls[c].trimmed # <<>> /\ ~calls[c].useStreaming

\* Call c was a streaming submit that has resolved, its stream one Start
\* event followed by one Complete event.
StartCompleteDone(c) ==
  /\ calls[c].pc = "resolved" /\ calls[c].trimmed # <<>> /\ calls[c].useStreaming
  /\ LET events == EventsOf(calls[c].emitted)
     IN Len(events) = 2 /\ events[1].type = "start" /\ events[2].type = "complete"

\* Call c resolves in this step.
Resolves(c) == calls[c].pc # "resolved" /\ calls'[c].pc = "resolved"

\* C13: a fallback submit and a streaming submit of the same message whose
\* stream is Start then Complete, with the same reply, leave the same outcome
\* (conversationId, reply given to the response hook, optimisticMessages);
\* the fallback call never invokes the stream-event hook; and both resolve
\* with isSending false and no error.
FallbackEquivalence ==
  /\ [](\A c, d \in CallIds :
          (/\ FallbackDone(c)
           /\ StartCompleteDone(d)
           /\ calls[c].trimmed = calls[d].trimmed
           /\ LET sent == EventsOf(calls[d].emitted)[2]
                  got == log[Last(EntriesOf(c, {"onResponse"}))].ev
              IN /\ sent.conversation_id = got.conversation_id
                 /\ sent.messages = got.messages) =>
            /\ Outcome(c) = Outcome(d)
            /\ Outcome(c).conversationId = Outcome(c).conversation_id
            /\ Outcome(c).responses = 1
            /\ Outcome(c).errors = 0
            /\ EntriesOf(c, {"onStreamEvent"}) = {})
  /\ [][\A c \in CallIds :
          (Resolves(c) /\ calls'[c].trimmed # <<>>) =>
            /\ isSending' = FALSE
            /\ calls'[c].thrown = NoError
            /\ (\A d \in CallIds : calls'[d].pc # "rejected") =>
                 error' = NoError /\ streamError' = NoError]_vars

\* One call of each mode has resolved, and they have left the same outcome.
FallbackEquivalenceWitness ==
  \E c, d \in CallIds :
    /\ FallbackDone(c)
    /\ StartCompleteDone(d)
    /\ calls[c].trimmed = calls[d].trimmed
    /\ Outcome(c) = Outcome(d)
    /\ Outcome(d).messages = CompleteMessages
    /\ Outcome(d).optimisticMessages = <<>>
    /\ ~isSending
    /\ error = NoError

\* The streaming request of call c fails in this step: fetch rejects, or the
\* response is not ok or has no body.
TransportFails(c) == calls[c].pc = "awaitFetch" /\ calls'[c].pc = "rejected"

\* C14: when the streaming request fails, the call rejects without processing
\* an event: conversationId and the cache are unchanged, only the error hook
\* is invoked, no reader is acquired, and optimisticMessages is left empty.
TransportFailure ==
  [][\A c \in CallIds :
       TransportFails(c) =>
         /\ calls'[c].thrown \in {NetworkError, UnableToStart}
         /\ conversationId' = conversationId
         /\ cache' = cache
         /\ Len(Added) = 1
         /\ Added[1].hook = "onError"
         /\ Added[1].call = c
         /\ \A i \in DOMAIN log' :
              log'[i].call = c => log'[i].hook \notin {"onStreamEvent", "onResponse"}
         /\ calls'[c].reader = "none"
         /\ calls'[c].emitted = <<>>
         /\ optimisticMessages' = <<>>]_vars

\* A call rejected for a response that could not be used, right after its
\* request was issued with the two optimistic entries in the list.
TransportFailureWitness ==
  \E c \in CallIds :
    /\ calls[c].pc = "rejected"
    /\ calls[c].thrown = UnableToStart
    /\ calls[c].reader = "none"
    /\ optimisticMessages = <<>>
    /\ Len(log) >= 2
    /\ log[Len(log)].hook = "onError"
    /\ log[Len(log)].call = c
    /\ log[Len(log) - 1].hook = "fetch"
    /\ log[Len(log) - 1].call = c
    /\ Len(log[Len(log) - 1].opt) = 2

\* Call c, made with a non-empty message, settles in this step.
Settles(c) ==
  /\ calls[c].pc \notin {"resolved", "rejected"}
  /\ calls'[c].pc \in {"resolved", "rejected"}
  /\ calls'[c].trimmed # <<>>

\* C15: a submit call with a non-empty message that settles, resolved or
\* rejected, in either mode, has set isSending to false when it settles.
SendingReset ==
  [][\A c \in CallIds : Settles(c) => isSending' = FALSE]_vars

\* Two calls with a message have settled, a streaming one that resolved at
\* the end of its body and one that was rejected, and isSending is false.
SendingResetWitness ==
  \E c, d \in CallIds :
    /\ calls[c].pc = "resolved" /\ calls[c].trimmed # <<>>
    /\ calls[c].useStreaming /\ calls[c].done
    /\ calls[d].pc = "rejected" /\ calls[d].trimmed # <<>>
    /\ ~isSending

\* C16: a reader that has been acquired is held exactly while the call is in
\* its read loop, and is released in the step in which the call leaves the
\* loop, whatever the way out (end of input, break after an Error event, a
\* failing read, an exception while an event is processed); no settled call
\* holds a reader.
ReaderReleased ==
  /\ [](\A c \in CallIds :
          /\ calls[c].reader = "locked" <=> calls[c].pc = "reading"
          /\ Settled(c) => calls[c].reader # "locked")
  /\ [][\A c \in CallIds :
          (calls[c].pc = "reading" /\ calls'[c].pc # "reading") =>
            /\ calls'[c].reader = "released"
            /\ calls'[c].pc \in {"resolved", "rejected"}]_vars

\* A call that left its read loop by the exception a null payload raises,
\* with its reader released.
ReaderReleasedWitness ==
  \E c \in CallIds :
    /\ calls[c].pc = "rejected"
    /\ calls[c].thrown = NullTypeError
    /\ calls[c].reader = "released"

\* The positions of the pending assistant entries of a list.
PendingAssistants(list) ==
  {i \in DOMAIN list : list[i].role = "assistant" /\ list[i].pending}

\* C17: optimisticMessages never holds more than one pending assistant entry,
\* and a Content event appends its chunk to the pending entry there is, or
\* adds a pending entry with the chunk when there is none (also after an
\* Error or Complete event has emptied the list).
OnePendingEntry ==
  /\ Cardinality(PendingAssistants(optimisticMessages)) <= 1
  /\ \A j \in DOMAIN log :
       /\ Cardinality(PendingAssistants(log[j].opt)) <= 1
       /\ IsStreamEvent(log[j], "content") =>
            /\ j > 1
            /\ LET previous == log[j - 1].opt
                   pending == PendingAssistants(previous)
               IN IF pending = {}
                    THEN log[j].opt =
                           Append(previous,
                                  [role |-> "assistant",
                                   content |-> <<log[j].ev.chunk>>,
                                   pending |-> TRUE])
                    ELSE \E k \in pending :
                           log[j].opt =
                             [previous EXCEPT
                                ![k].content = @ \o <<log[j].ev.chunk>>]

\* A Content event that arrived after an Error event had emptied the list
\* has made a pending entry of its own.
OnePendingEntryWitness ==
  \E j \in DOMAIN log :
    /\ j > 2
    /\ IsStreamEvent(log[j - 1], "error")
    /\ log[j - 1].opt = <<>>
    /\ IsStreamEvent(log[j], "content")
    /\ Len(log[j].opt) = 1
    /\ PendingAssistants(log[j].opt) = {1}

\* Call c is made with a non-empty message in this step.
Begins(c) == calls[c].pc = "idle" /\ calls'[c].pc \in {"awaitFetch", "awaitPost"}

\* The two entries handleBeforeSend records for a message.
TwoEntries(content) ==
  <<[role |-> "user", content |-> content, pending |-> FALSE],
    [role |-> "assistant", content |-> <<>>, pending |-> TRUE]>>

\* C18: a submit with a non-empty message has, when its request is issued,
\* set isSending, cleared the prior error, and invoked the before-send hook
\* with the trimmed message, which has recorded the user entry and an empty
\* pending assistant entry; the request comes after the hook.
SubmitOrder ==
  [][\A c \in CallIds :
       Begins(c) =>
         LET trimmed == calls'[c].trimmed
         IN /\ trimmed # <<>>
            /\ trim(trimmed) = trimmed
            /\ isSending' = TRUE
            /\ error' = NoError
            /\ Len(Added) = 2
            /\ Added[1].hook = "onBeforeSend"
            /\ Added[1].call = c
            /\ Added[1].text = trimmed
            /\ Added[1].opt = TwoEntries(trimmed)
            /\ Added[2].hook = IF calls'[c].useStreaming THEN "fetch" ELSE "post"
            /\ Added[2].call = c
            /\ Added[2].text = trimmed
            /\ Added[2].opt = TwoEntries(trimmed)
            /\ optimisticMessages' = TwoEntries(trimmed)]_vars

\* A second call has issued its request right after the first was rejected:
\* the error of the first is cleared and the two entries are recorded.
SubmitOrderWitness ==
  /\ calls[1].pc = "rejected"
  /\ calls[2].pc = "awaitFetch"
  /\ isSending
  /\ error = NoError
  /\ Len(log) >= 3
  /\ log[Len(log)].hook = "fetch"
  /\ log[Len(log) - 1].hook = "onBeforeSend"
  /\ log[Len(log) - 1].text = <<"h", "s", "i">>
  /\ log[Len(log) - 2].hook = "onError"
  /\ optimisticMessages = TwoEntries(<<"h", "s", "i">>)

\* C19: once a call has processed a Complete event, no later event of the
\* call is applied: none changes conversationId or optimisticMessages or is
\* an Error event setting the error, and the response hook is not invoked a
\* second time.
CompleteIsTerminal ==
  \A i, j \in DOMAIN log :
    (/\ i < j
     /\ log[i].call = log[j].call
     /\ IsStreamEvent(log[i], "complete")) =>
      /\ log[j].hook # "onResponse"
      /\ log[j].hook = "onStreamEvent" =>
           /\ log[j].ev.type # "error"
           /\ log[j].conv = log[j - 1].conv
           /\ log[j].opt = log[j - 1].opt

\* The records of a text that end with a separator; what follows the last
\* separator is left out.
RECURSIVE TerminatedRecords(_)
TerminatedRecords(text) ==
  LET separatorIndex == indexOfSeparator(text)
  IN IF separatorIndex = -1 THEN <<>>
     ELSE <<sliceTo(text, separatorIndex)>>
            \o TerminatedRecords(sliceFrom(text, separatorIndex + 2))

\* Call c processes its first Error event in this step.
ErrorDecoded(c) == ~calls[c].encounteredError /\ calls'[c].encounteredError

\* C20: the step in which a call decodes an Error event is its last: the call
\* reads no further fragment and rejects with 'Streaming failed.', and when
\* the event came in a fragment (not at end of input) only the records that
\* ended with a separator were emitted, the remainder never.
StreamFailure ==
  [][\A c \in CallIds :
       ErrorDecoded(c) =>
         /\ calls'[c].pc = "rejected"
         /\ calls'[c].thrown = StreamingFailed
         /\ calls'[c].reader = "released"
         /\ ~calls'[c].done =>
              \E size \in 1..Len(calls[c].rest) :
                LET read == calls[c].received \o SubSeq(calls[c].rest, 1, size)
                IN calls'[c].emitted =
                     TerminatedRecords(decode(FALSE, read, TRUE).text)]_vars

\* What follows the last separator of a text.
RECURSIVE Remainder(_)
Remainder(text) ==
  LET separatorIndex == indexOfSeparator(text)
  IN IF separatorIndex = -1 THEN text
     ELSE Remainder(sliceFrom(text, separatorIndex + 2))

\* C21: at end of input the unterminated remainder of the buffer is emitted
\* as one final record if it is not empty after trimming, and nothing is
\* emitted if it is; a fragment before end of input emits the records that
\* end with a separator and keeps the remainder, unchanged, in the buffer.
FinalFlush ==
  [][\A c \in CallIds :
       /\ (~calls[c].done /\ calls'[c].done) =>
            LET remainder ==
                  calls[c].buffer \o (IF calls[c].held THEN <<"FFFD">> ELSE <<>>)
            IN calls'[c].emitted =
                 calls[c].emitted
                   \o (IF trim(remainder) # <<>> THEN <<remainder>> ELSE <<>>)
       /\ (calls[c].pc = "reading" /\ calls'[c].pc = "reading"
             /\ calls'[c].received # calls[c].received) =>
            LET value == SubSeq(calls'[c].received, Len(calls[c].received) + 1,
                                Len(calls'[c].received))
                text == calls[c].buffer \o decode(calls[c].held, value, TRUE).text
            IN /\ calls'[c].emitted = calls[c].emitted \o TerminatedRecords(text)
               /\ calls'[c].buffer = Remainder(text)]_vars

\* A remainder kept over two fragments and emitted once, as it is, at end of
\* input.
FinalFlushWitness ==
  /\ calls[1].done
  /\ fragments = <<1, 1>>
  /\ calls[1].received = <<"x", "s">>
  /\ calls[1].emitted = << <<"x", "s">> >>

\* An event of a type processEvent does not know.
OtherType(event) == event.type \notin {"start", "content", "complete", "error"}

\* A line of the history that forwards such an event.
ForwardsOther(e) == e.hook = "onStreamEvent" /\ OtherType(e.ev)

\* C22: an event whose type is none of start, content, complete, error is
\* forwarded to the stream-event hook, changes none of conversationId, error,
\* isSending and optimisticMessages, invokes neither the response hook nor
\* the error hook, and does not end the stream.
OtherTypeForwarded ==
  /\ [](/\ \A c \in CallIds :
             SelectSeq(Forwarded(c, log), OtherType)
               = SelectSeq(EventsOf(calls[c].emitted), OtherType)
        /\ \A j \in DOMAIN log :
             ForwardsOther(log[j]) =>
               /\ j > 1
               /\ log[j].conv = log[j - 1].conv
               /\ log[j].opt = log[j - 1].opt
               /\ log[j].cache = log[j - 1].cache
               /\ ~(/\ log[j - 1].call = log[j].call
                    /\ log[j - 1].hook \in {"onResponse", "onError"}))
  /\ [][(Added # <<>> /\ \A k \in DOMAIN Added : ForwardsOther(Added[k])) =>
          /\ UNCHANGED <<conversationId, error, optimisticMessages, streamError,
                         cache>>
          /\ \A c \in CallIds :
               /\ calls'[c].thrown = calls[c].thrown
               /\ calls'[c].encounteredError = calls[c].encounteredError
               /\ calls'[c].pc # calls[c].pc =>
                    calls'[c].pc = "resolved" /\ calls'[c].done
               /\ Added[1].call = c =>
                    \/ calls'[c].pc = "reading" /\ isSending' = isSending
                    \/ calls'[c].done]_vars

\* An event of another type arrived between the before-send step and a
\* Content event of the same call: the list it found is the list it left,
\* and the chunk was appended after it.
OtherTypeForwardedWitness ==
  \E j \in DOMAIN log :
    /\ j > 1 /\ j < Len(log)
    /\ ForwardsOther(log[j])
    /\ log[j].ev.type = "ping"
    /\ Len(log[j].opt) = 2
    /\ log[j].opt[2].content = <<>>
    /\ log[j + 1].call = log[j].call
    /\ IsStreamEvent(log[j + 1], "content")
    /\ log[j + 1].opt[2].content = <<"a">>

\* C23: when a submit call has settled and no call is in flight,
\* optimisticMessages holds no pending assistant entry, also when the stream
\* of the call ended without a Complete or an Error event.
NoPendingAfterSettle ==
  (/\ \E c \in CallIds : Settled(c)
   /\ \A c \in CallIds : ~InFlight(c)) =>
    PendingAssistants(optimisticMessages) = {}

\* C24: when every submit comes through the page, no call begins while a
\* call of the controller is in flight, and the chunk of a Content event goes
\* to the entries the before-send step of its own call recorded, never to
\* those of another call.
PageSingleFlight ==
  /\ [](/\ Cardinality({c \in CallIds : InFlight(c)}) <= 1
        /\ \A j \in DOMAIN log :
             IsStreamEvent(log[j], "content") =>
               LET befores == {i \in 1..j : log[i].hook = "onBeforeSend"}
               IN befores # {} /\ log[Last(befores)].call = log[j].call)
  /\ [][\A c \in CallIds :
          Begins(c) => ~isSending /\ \A d \in CallIds : ~InFlight(d)]_vars

\* The initial message was sent and its call has settled; a second call, from
\* the composer, has received a chunk in an entry of its own.
PageSingleFlightWitness ==
  /\ page.hasAutoSentInitialMessage
  /\ Settled(1) /\ calls[1].trimmed # <<>>
  /\ calls[2].pc = "reading"
  /\ Len(optimisticMessages) = 2
  /\ optimisticMessages[2].content = <<"a">>
  /\ log[Len(log)].call = 2
  /\ IsStreamEvent(log[Len(log)], "content")

\* C25: a call that has been rejected has invoked the error hook exactly
\* once, whatever made it fail.
ErrorHookOnce ==
  \A c \in CallIds :
    calls[c].pc = "rejected" => Cardinality(EntriesOf(c, {"onError"})) = 1

=============================================================================
